---- MODULE Spec2Model ----
(***************************************************************************)
(* Model of light_manager.py: a control loop that drives three light      *)
(* outputs ("main", "aux", "gallery") from a lux sensor and a schedule.    *)
(*                                                                         *)
(* Strings that the program parses ("HH:MM" schedule entries) are modelled *)
(* as sequences of one-character strings, so that parse_time, format_time  *)
(* and time_with_offset are computed the way the code computes them.       *)
(* A Python call that may raise returns a record with a field `ok`.        *)
(***************************************************************************)
EXTENDS Integers, Sequences, FiniteSets, TLC

VARIABLES
    pc,          \* position of the process in the script
    now,         \* `now` of the current cycle: [day, hour, minute]
    cfg,         \* `cfg` of the current cycle: a dict (function on its keys)
    lux,         \* `lux` of the current cycle
    tries,       \* number of sensor reads made by the current get_lux call
    reading,     \* outcome of the last `sensor.lux` read inside get_lux
    i,           \* index in SPOTS of the next fixture of the for loop
    state,       \* `state`: dict fixture name -> desired bool
    lit,         \* led.is_lit of every fixture
    last_day,    \* `last_day` (0 models None)
    rnd_on,      \* `rnd_on`
    rnd_off,     \* `rnd_off`
    state_file,  \* contents of STATE_FILE
    cmds,        \* led.on()/led.off() calls made by the current cycle
    log,         \* log records written by the current cycle
    ran,         \* TRUE once a cycle of this process has completed
    exit_info,   \* how and where the process left the loop
    cfg_read,    \* what open/json.load of CONFIG_FILE gave in the cycle
    call         \* harness for the pure helpers: arguments and result

vars == <<pc, now, cfg, lux, tries, reading, i, state, lit, last_day,
          rnd_on, rnd_off, state_file, cmds, log, ran, exit_info, cfg_read,
          call>>

---------------------------------------------------------------------------
(* Bounds of the model *)

MaxDay == 2

---------------------------------------------------------------------------
(* Program constants *)

SpotOrder == <<"main", "aux", "gallery">>

SpotNames == {SpotOrder[k] : k \in 1..Len(SpotOrder)}

MaxReads == 3

Sentinel == 9999

DefaultCheckInterval == 60

DefaultThreshold == 120

DefaultHysteresis == 15

None == 0

---------------------------------------------------------------------------
(* Python dict helpers *)

EmptyDict == <<>>

Has(d, k) == k \in DOMAIN d

Get(d, k, default) == IF k \in DOMAIN d THEN d[k] ELSE default

Put(d, k, v) == [x \in (DOMAIN d) \cup {k} |-> IF x = k THEN v ELSE d[x]]

---------------------------------------------------------------------------
(* Strings as sequences of characters *)

Digits == <<"0", "1", "2", "3", "4", "5", "6", "7", "8", "9">>

IsDigit(c) == \E d \in 1..10 : Digits[d] = c

DigitVal(c) == (CHOOSE d \in 1..10 : Digits[d] = c) - 1

DigitChr(n) == Digits[n + 1]

\* str.split(sep) for a one-character separator
RECURSIVE split(_, _)
split(s, sep) ==
    IF \A k \in 1..Len(s) : s[k] # sep
    THEN <<s>>
    ELSE LET p == CHOOSE k \in 1..Len(s) :
                      s[k] = sep /\ \A j \in 1..(k - 1) : s[j] # sep
         IN  <<SubSeq(s, 1, p - 1)>> \o split(SubSeq(s, p + 1, Len(s)), sep)

RECURSIVE DigitsVal(_)
DigitsVal(s) ==
    IF Len(s) = 0 THEN 0
    ELSE 10 * DigitsVal(SubSeq(s, 1, Len(s) - 1)) + DigitVal(s[Len(s)])

\* int(s): an optional sign followed by one or more decimal digits
IntOk(s) ==
    LET body == IF Len(s) > 0 /\ s[1] \in {"+", "-"} THEN Tail(s) ELSE s
    IN  Len(body) > 0 /\ \A k \in 1..Len(body) : IsDigit(body[k])

IntVal(s) ==
    IF s[1] = "-" THEN 0 - DigitsVal(Tail(s))
    ELSE IF s[1] = "+" THEN DigitsVal(Tail(s))
    ELSE DigitsVal(s)

---------------------------------------------------------------------------
(* Time helpers *)

Raised == [ok |-> FALSE, hour |-> 0, minute |-> 0, second |-> 0]

Time(h, m, s) == [ok |-> TRUE, hour |-> h, minute |-> m, second |-> s]

\* parse_time: h, m = map(int, tstr.split(":")); datetime.time(h, m)
parse_time(tstr) ==
    LET parts == split(tstr, ":")
    IN  IF Len(parts) # 2 THEN Raised
        ELSE IF ~IntOk(parts[1]) \/ ~IntOk(parts[2]) THEN Raised
        ELSE LET h == IntVal(parts[1])
                 m == IntVal(parts[2])
             IN  IF h \in 0..23 /\ m \in 0..59 THEN Time(h, m, 0) ELSE Raised

time_to_minutes(t) == t.hour * 60 + t.minute

\* strftime with an hour field that is not padded
format_time_unpadded(t) ==
    (IF t.hour < 10 THEN <<DigitChr(t.hour)>>
     ELSE <<DigitChr(t.hour \div 10), DigitChr(t.hour % 10)>>)
    \o <<":", DigitChr(t.minute \div 10), DigitChr(t.minute % 10)>>

\* strftime("%H:%M")
format_time(t) ==
    <<DigitChr(t.hour \div 10), DigitChr(t.hour % 10), ":",
      DigitChr(t.minute \div 10), DigitChr(t.minute % 10)>>

\* datetime.combine(today, parse_time(base)) + timedelta(seconds=offset),
\* then .time(): the date that the sum may roll over to is dropped
time_with_offset(base, offset) ==
    LET t == parse_time(base)
    IN  IF ~t.ok THEN Raised
        ELSE LET secs == (t.hour * 3600 + t.minute * 60 + t.second + offset)
                            % 86400
             IN  Time(secs \div 3600, (secs % 3600) \div 60, secs % 60)

\* now.time() of a datetime, to the minute
time_of(dt) == Time(dt.hour, dt.minute, 0)

is_between_closed_end(dt, start_str, end_str) ==
    LET start == parse_time(start_str)
        end   == parse_time(end_str)
    IN  IF ~start.ok \/ ~end.ok THEN [ok |-> FALSE, value |-> FALSE]
        ELSE LET now_min   == time_to_minutes(time_of(dt))
                 start_min == time_to_minutes(start)
                 end_min   == time_to_minutes(end)
             IN  [ok |-> TRUE,
                  value |-> IF start_min <= end_min
                            THEN start_min <= now_min /\ now_min <= end_min
                            ELSE now_min >= start_min \/ now_min <= end_min]

is_between(dt, start_str, end_str) ==
    LET start == parse_time(start_str)
        end   == parse_time(end_str)
    IN  IF ~start.ok \/ ~end.ok THEN [ok |-> FALSE, value |-> FALSE]
        ELSE LET now_min   == time_to_minutes(time_of(dt))
                 start_min == time_to_minutes(start)
                 end_min   == time_to_minutes(end)
             IN  [ok |-> TRUE,
                  value |-> IF start_min <= end_min
                            THEN start_min <= now_min /\ now_min < end_min
                            ELSE now_min >= start_min \/ now_min < end_min]

---------------------------------------------------------------------------
(* Inputs of the model: what the environment can supply *)

Str(a, b, c, d) == <<a, b, ":", c, d>>

\* The configuration documents that CONFIG_FILE may hold
Configs ==
    { EmptyDict,
      [threshold |-> 110, hysteresis |-> 20, check_interval |-> 30],
      [threshold |-> 9990],
      [main_off |-> Str("2", "0", "0", "0")],
      [main_off |-> Str("2", "0", "0", "0"), threshold |-> 110,
       hysteresis |-> 20],
      [gallery_on |-> Str("1", "8", "0", "0"),
       gallery_off |-> Str("2", "3", "0", "0")],
      [gallery_on |-> Str("1", "8", "0", "0")],
      [aux_off |-> Str("1", "8", "0", "0")],
      [gallery_on |-> Str("2", "2", "0", "0"),
       gallery_off |-> Str("0", "6", "0", "0"),
       aux_on |-> Str("0", "8", "0", "0"),
       aux_off |-> Str("1", "8", "0", "0")],
      [main_off |-> Str("2", "0", "0", "0"),
       gallery_on |-> Str("1", "8", "0", "0"),
       gallery_off |-> Str("2", "3", "0", "0"),
       aux_on |-> <<"8", ":", "0">>,
       aux_off |-> Str("1", "8", "0", "0")],
      [main_off |-> Str("2", "5", "0", "0")],
      [aux_on |-> <<"8", "h">>, aux_off |-> Str("1", "8", "0", "0"),
       gallery_on |-> Str("1", "8", "0", "0"),
       gallery_off |-> Str("2", "3", "0", "0")],
      [gallery_on |-> Str("1", "8", "0", "0"),
       gallery_off |-> <<"2", "3", "0", "0">>] }

\* What reading CONFIG_FILE can give: a document, or an exception
ConfigReads ==
    {[ok |-> TRUE, doc |-> c] : c \in Configs}
        \cup {[ok |-> FALSE, doc |-> EmptyDict]}

\* Before the first read of a cycle
NoConfigRead == [ok |-> TRUE, doc |-> EmptyDict]

\* lines 44-50 with the defaults whatever the file holds
read_config_empty(found) == EmptyDict

\* lines 44-50: the document, or {} when open or json.load raised
read_config(found) == IF found.ok THEN found.doc ELSE EmptyDict

\* line 49
read_config_log(found) ==
    IF found.ok THEN {} ELSE {<<"config", "read failed">>}

\* Times of day at which a cycle may start, as <<hour, minute>>
NowTimes ==
    {<<0, 0>>, <<12, 0>>, <<19, 0>>, <<20, 0>>, <<20, 5>>, <<23, 0>>}

Nows == {[day |-> d, hour |-> t[1], minute |-> t[2]] :
            d \in 1..MaxDay, t \in NowTimes}

\* a <= b on the wall clock
NotBefore(a, b) ==
    \/ a.day < b.day
    \/ a.day = b.day /\ a.hour * 60 + a.minute <= b.hour * 60 + b.minute

\* Values the sensor may report
LuxValues == {104, 105, 110, 130, 135, 136, 9999}

\* What one `sensor.lux` read can give
SensorOutcomes ==
    {[kind |-> "raise", value |-> 0], [kind |-> "none", value |-> 0],
     [kind |-> "value", value |-> 0 - 1]}
        \cup {[kind |-> "value", value |-> v] : v \in LuxValues}

NoReading == [kind |-> "unset", value |-> 0]

\* What STATE_FILE may hold: unreadable (absent or not JSON), or a dict
\* written by an earlier run
Unreadable == [ok |-> FALSE, data |-> EmptyDict]

StateFiles ==
    {Unreadable} \cup
    {[ok |-> TRUE,
      data |-> [main |-> a, aux |-> b, gallery |-> c]] :
        a \in BOOLEAN, b \in BOOLEAN, c \in BOOLEAN}

---------------------------------------------------------------------------
(* The decision for one fixture: should_be_on *)

Returns(v) == [ok |-> TRUE, value |-> v]

Raises == [ok |-> FALSE, value |-> FALSE]

\* a >= b for datetime.time values
time_ge(a, b) ==
    \/ a.hour > b.hour
    \/ a.hour = b.hour /\ a.minute > b.minute
    \/ a.hour = b.hour /\ a.minute = b.minute /\ a.second >= b.second

on_key(name) == name \o "_on"

off_key(name) == name \o "_off"

\* lines 162-172: gallery and aux follow the schedule only
schedule_rule_edge(name, c, dt, on_offset, off_offset) ==
    IF Has(c, on_key(name)) /\ Has(c, off_key(name))
    THEN LET on_t  == time_with_offset(c[on_key(name)], on_offset)
             off_t == time_with_offset(c[off_key(name)], off_offset)
         IN  IF ~on_t.ok \/ ~off_t.ok THEN Raises
             ELSE Returns(time_to_minutes(time_of(dt)) = time_to_minutes(on_t))
    ELSE Returns(FALSE)

\* lines 164-172 with one key enough, the other taken as midnight
schedule_rule_either_key(name, c, dt, on_offset, off_offset) ==
    IF Has(c, on_key(name)) \/ Has(c, off_key(name))
    THEN LET midnight == <<"0", "0", ":", "0", "0">>
             on_t  == time_with_offset(Get(c, on_key(name), midnight),
                                       on_offset)
             off_t == time_with_offset(Get(c, off_key(name), midnight),
                                       off_offset)
         IN  IF ~on_t.ok \/ ~off_t.ok THEN Raises
             ELSE is_between(dt, format_time(on_t), format_time(off_t))
    ELSE Returns(FALSE)

schedule_rule(name, c, dt, on_offset, off_offset) ==
    IF Has(c, on_key(name)) /\ Has(c, off_key(name))
    THEN LET on_t == time_with_offset(c[on_key(name)], on_offset)
         IN  IF ~on_t.ok THEN Raises
             ELSE LET off_t == time_with_offset(c[off_key(name)], off_offset)
                  IN  IF ~off_t.ok THEN Raises
                      ELSE is_between(dt, format_time(on_t),
                                      format_time(off_t))
    ELSE Returns(FALSE)

\* lines 177-180: [ok, value], value TRUE when the main_off time is reached
manual_cutoff_strict(c, dt) ==
    IF Has(c, "main_off")
    THEN LET off_time == parse_time(c["main_off"])
         IN  IF ~off_time.ok THEN Raises
             ELSE Returns(time_ge(time_of(dt), off_time)
                          /\ time_of(dt) # off_time)
    ELSE Returns(FALSE)

\* lines 177-180 with a cutoff that holds at every time of day
manual_cutoff_all_day(c, dt) ==
    IF Has(c, "main_off")
    THEN LET off_time == parse_time(c["main_off"])
         IN  IF ~off_time.ok THEN Raises ELSE Returns(TRUE)
    ELSE Returns(FALSE)

\* lines 176-180: [ok, value], value TRUE when the cutoff applies
manual_cutoff(c, dt) ==
    IF Has(c, "main_off")
    THEN LET off_time == parse_time(c["main_off"])
         IN  IF ~off_time.ok THEN Raises
             ELSE Returns(time_ge(time_of(dt), off_time))
    ELSE Returns(FALSE)

\* lines 183-188 with a light that is on never given up
brightness_rule_sticky(prev_state, lx, threshold, hysteresis) ==
    IF prev_state
    THEN TRUE
    ELSE lx < threshold - hysteresis

\* lines 183-188 with one threshold for both directions
brightness_rule_no_band(prev_state, lx, threshold, hysteresis) ==
    lx < threshold

\* lines 183-188 with the comparison against the upper edge made inclusive
brightness_rule_inclusive(prev_state, lx, threshold, hysteresis) ==
    IF prev_state
    THEN lx <= threshold + hysteresis
    ELSE lx < threshold - hysteresis

\* lines 183-188: brightness with hysteresis
brightness_rule(prev_state, lx, threshold, hysteresis) ==
    IF prev_state
    THEN lx < threshold + hysteresis
    ELSE lx < threshold - hysteresis

should_be_on(name, st, c, dt, lx, on_offset, off_offset) ==
    LET prev_state == Get(st, name, FALSE)
        threshold  == Get(c, "threshold", DefaultThreshold)
        hysteresis == Get(c, "hysteresis", DefaultHysteresis)
    IN  IF name \in {"gallery", "aux"}
        THEN schedule_rule(name, c, dt, on_offset, off_offset)
        ELSE IF name = "main"
        THEN LET cut == manual_cutoff(c, dt)
             IN  IF ~cut.ok THEN Raises
                 ELSE IF cut.value THEN Returns(FALSE)
                 ELSE Returns(brightness_rule(prev_state, lx, threshold,
                                              hysteresis))
        ELSE Returns(FALSE)

---------------------------------------------------------------------------
(* Reconciliation of one fixture, lines 195-214 *)

\* lines 195-201 with a missing entry taken as off
edge_log_default_off(name, st, want) ==
    IF Get(st, name, FALSE) # want THEN {<<name, "transition">>} ELSE {}

\* lines 198-201: the edge-detection log record, if any
edge_log(name, st, want) ==
    IF ~Has(st, name) THEN {<<name, "init">>}
    ELSE IF st[name] # want THEN {<<name, "transition">>}
    ELSE {}

\* lines 204-211 without the is_lit tests
led_command_unconditional(want, is_lit) ==
    IF want THEN "on" ELSE "off"

\* lines 204-211 with the if branch never switching on
led_command_off_only(want, is_lit) ==
    IF ~want /\ is_lit THEN "off" ELSE "none"

\* lines 204-211 with the else branch never switching off
led_command_on_only(want, is_lit) ==
    IF want /\ ~is_lit THEN "on" ELSE "none"

\* lines 204-211: the call made on the LED, if any
led_command(want, is_lit) ==
    IF want
    THEN IF ~is_lit THEN "on" ELSE "none"
    ELSE IF is_lit THEN "off" ELSE "none"

\* lines 207, 211: the log record of the call
command_log(name, cmd) ==
    IF cmd = "on" THEN {<<name, "turned ON">>}
    ELSE IF cmd = "off" THEN {<<name, "turned OFF">>}
    ELSE {}

\* gpiozero LED: is_lit after the call
led_after(is_lit, cmd) ==
    IF cmd = "on" THEN TRUE ELSE IF cmd = "off" THEN FALSE ELSE is_lit

---------------------------------------------------------------------------
(* Sensor, state file, shutdown *)

\* line 75 accepting every number
reading_valid_any_number(r) == r.kind = "value"

\* lines 74-77: the read did not raise and is a non-negative number
reading_valid(r) == r.kind = "value" /\ r.value >= 0

\* lines 53-60
\* lines 53-60 with the file never read
load_state_empty(file) == EmptyDict

load_state(file) == IF file.ok THEN file.data ELSE EmptyDict

\* lines 34-35
all_off == [n \in SpotNames |-> FALSE]

\* a handler that logs and leaves the outputs alone
interrupt_handler_log_only(leds) == leds

\* lines 219-222: the outputs after the KeyboardInterrupt handler
interrupt_handler(leds) == [n \in DOMAIN leds |-> FALSE]

NoCmds == [n \in SpotNames |-> "none"]

NoExit == [how |-> "running", at |-> "", lit_before |-> FALSE]

NoCall == [fn |-> "", dt |-> [day |-> 1, hour |-> 0, minute |-> 0],
           start |-> <<>>, end |-> <<>>, done |-> FALSE, ret |-> Raises,
           out |-> <<>>]

StartOfDay == [day |-> 1, hour |-> 0, minute |-> 0]

---------------------------------------------------------------------------
(* The process *)

LoopPcs == {"loop", "read", "check", "retry_delay", "spots", "save", "sleep"}

\* lines 25-41 and 125-128: the state once the script reaches the loop
Init ==
    /\ pc = "loop"
    /\ now = StartOfDay
    /\ cfg = EmptyDict
    /\ lux = 0
    /\ tries = 0
    /\ reading = NoReading
    /\ i = 1
    /\ state_file \in StateFiles
    /\ state = load_state(state_file)
    /\ lit = all_off
    /\ last_day = None
    /\ rnd_on = 0
    /\ rnd_off = 0
    /\ cmds = NoCmds
    /\ log = {}
    /\ ran = FALSE
    /\ exit_info = NoExit
    /\ cfg_read = NoConfigRead
    /\ call = NoCall

\* line 141 with the offsets drawn in every cycle
new_day_always(last, dt) == TRUE

\* line 141: last_day != now.day
new_day(last, dt) == last # dt.day

\* lines 133-151: top of an iteration, up to the call of get_lux
BeginCycle ==
    /\ pc = "loop"
    /\ \E dt \in Nows, r \in ConfigReads :
        /\ NotBefore(now, dt)
        /\ now' = dt
        /\ cfg_read' = r
        /\ cfg' = read_config(r)
        /\ IF new_day(last_day, dt)
           THEN /\ rnd_on' = 0
                /\ rnd_off' = 0
                /\ last_day' = dt.day
           ELSE UNCHANGED <<rnd_on, rnd_off, last_day>>
        /\ log' = read_config_log(r)
                    \cup (IF new_day(last_day, dt)
                          THEN {<<"offsets", "new">>} ELSE {})
    /\ cmds' = NoCmds
    /\ tries' = 0
    /\ pc' = "read"
    /\ UNCHANGED <<lux, reading, i, state, lit, state_file, ran, exit_info,
                   call>>

\* line 74: one read of the sensor
SensorRead ==
    /\ pc = "read"
    /\ \E o \in SensorOutcomes : reading' = o
    /\ tries' = tries + 1
    /\ pc' = "check"
    /\ UNCHANGED <<now, cfg, lux, i, state, lit, last_day, rnd_on, rnd_off,
                   state_file, cmds, log, ran, exit_info, call,
                   cfg_read>>

\* lines 75-78: return the reading, or go on to the delay
CheckReading ==
    /\ pc = "check"
    /\ IF reading_valid(reading)
       THEN /\ lux' = reading.value
            /\ tries' = 0
            /\ i' = 1
            /\ pc' = "spots"
       ELSE /\ pc' = "retry_delay"
            /\ UNCHANGED <<lux, tries, i>>
    /\ reading' = NoReading
    /\ UNCHANGED <<now, cfg, state, lit, last_day, rnd_on, rnd_off,
                   state_file, cmds, log, ran, exit_info, call,
                   cfg_read>>

\* line 79, then the next iteration of `for _ in range(3)` or lines 80-81
RetryDelay ==
    /\ pc = "retry_delay"
    /\ IF tries < MaxReads
       THEN /\ pc' = "read"
            /\ UNCHANGED <<lux, tries, i, log>>
       ELSE /\ lux' = Sentinel
            /\ log' = log \cup {<<"lux", "read failed">>}
            /\ tries' = 0
            /\ i' = 1
            /\ pc' = "spots"
    /\ UNCHANGED <<now, cfg, reading, state, lit, last_day, rnd_on, rnd_off,
                   state_file, cmds, ran, exit_info, call,
                   cfg_read>>

Decision(name) == should_be_on(name, state, cfg, now, lux, rnd_on, rnd_off)

\* lines 193-214: one iteration of the for loop over SPOTS
SpotStep ==
    /\ pc = "spots"
    /\ LET name == SpotOrder[i]
           r    == Decision(name)
       IN  /\ r.ok
           /\ LET want == r.value
                  cmd  == led_command(want, lit[name])
              IN  /\ log' = log \cup edge_log(name, state, want)
                                \cup command_log(name, cmd)
                  /\ cmds' = [cmds EXCEPT ![name] = cmd]
                  /\ lit' = [lit EXCEPT ![name] = led_after(@, cmd)]
                  /\ state' = Put(state, name, want)
    /\ IF i < Len(SpotOrder)
       THEN i' = i + 1 /\ pc' = "spots"
       ELSE i' = 1 /\ pc' = "save"
    /\ UNCHANGED <<now, cfg, lux, tries, reading, last_day, rnd_on, rnd_off,
                   state_file, ran, exit_info, call,
                   cfg_read>>

\* The memory of the process after it has exited
ProcessGone ==
    /\ cfg' = EmptyDict
    /\ lux' = 0
    /\ tries' = 0
    /\ reading' = NoReading
    /\ i' = 1
    /\ state' = EmptyDict
    /\ last_day' = None
    /\ rnd_on' = 0
    /\ rnd_off' = 0
    /\ cmds' = NoCmds
    /\ log' = {}
    /\ ran' = FALSE
    /\ cfg_read' = NoConfigRead

\* lines 86-87 raising ValueError inside should_be_on: nothing in the
\* script catches it (line 219 catches KeyboardInterrupt only). Whether the
\* outputs are released when the interpreter exits is gpiozero's doing, not
\* the script's: they stay as they are or go off.
SpotRaises ==
    /\ pc = "spots"
    /\ ~Decision(SpotOrder[i]).ok
    /\ pc' = "crashed"
    /\ exit_info' = [how |-> "ValueError", at |-> SpotOrder[i],
                     lit_before |-> \E n \in SpotNames : lit[n]]
    /\ lit' \in {lit, all_off}
    /\ ProcessGone
    /\ UNCHANGED <<now, state_file, call>>

\* line 66 dumping the entry of "main" only
written_file_main_only(st) ==
    [ok |-> TRUE, data |-> [n \in (DOMAIN st) \cap {"main"} |-> st[n]]]

\* lines 65-66: what json.dump(state, f) leaves in the file
written_file(st) == [ok |-> TRUE, data |-> st]

\* lines 216, 63-66: the state file is rewritten
SaveState ==
    /\ pc = "save"
    /\ state_file' = written_file(state)
    /\ pc' = "sleep"
    /\ UNCHANGED <<now, cfg, lux, tries, reading, i, state, lit, last_day,
                   rnd_on, rnd_off, cmds, log, ran, exit_info, call,
                   cfg_read>>

\* lines 65-68: open(STATE_FILE, "w") has emptied the file and json.dump
\* raised. (When open itself raises the file keeps a dict of an earlier
\* cycle; a process started on such a file starts in a state of Init.)
SaveStateFails ==
    /\ pc = "save"
    /\ state_file' = Unreadable
    /\ log' = log \cup {<<"state", "save failed">>}
    /\ pc' = "sleep"
    /\ UNCHANGED <<now, cfg, lux, tries, reading, i, state, lit, last_day,
                   rnd_on, rnd_off, cmds, ran, exit_info, call,
                   cfg_read>>

check_interval(c) == Get(c, "check_interval", DefaultCheckInterval)

\* line 217, then back to line 132. cfg, lux and the cycle's records are
\* assigned afresh (lines 134, 153) before the next iteration reads them.
Sleep ==
    /\ pc = "sleep"
    /\ check_interval(cfg) > 0
    /\ pc' = "loop"
    /\ ran' = TRUE
    /\ cfg' = EmptyDict
    /\ lux' = 0
    /\ cmds' = NoCmds
    /\ log' = {}
    /\ cfg_read' = NoConfigRead
    /\ UNCHANGED <<now, tries, reading, i, state, lit, last_day, rnd_on,
                   rnd_off, state_file, exit_info, call>>

\* lines 219-222: KeyboardInterrupt anywhere inside the try block
Interrupt ==
    /\ pc \in LoopPcs
    /\ pc' = "stopped"
    /\ lit' = interrupt_handler(lit)
    /\ exit_info' = [how |-> "KeyboardInterrupt",
                     at |-> IF pc = "spots" THEN SpotOrder[i] ELSE pc,
                     lit_before |-> \E n \in SpotNames : lit[n]]
    /\ IF pc = "save"
       THEN state_file' \in {state_file, Unreadable}
       ELSE UNCHANGED state_file
    /\ ProcessGone
    /\ UNCHANGED <<now, call>>

\* lines 25-41, 125-128: the script is started again
Startup ==
    /\ pc \in {"stopped", "crashed"}
    /\ pc' = "loop"
    /\ lit' = all_off
    /\ state' = load_state(state_file)
    /\ last_day' = None
    /\ rnd_on' = 0
    /\ rnd_off' = 0
    /\ ran' = FALSE
    /\ exit_info' = NoExit
    /\ UNCHANGED <<now, cfg, lux, tries, reading, i, state_file, cmds, log,
                   call,
                   cfg_read>>

Next ==
    \/ BeginCycle
    \/ SensorRead
    \/ CheckReading
    \/ RetryDelay
    \/ SpotStep
    \/ SpotRaises
    \/ SaveState
    \/ SaveStateFails
    \/ Sleep
    \/ Interrupt
    \/ Startup

Spec == Init /\ [][Next]_vars

---------------------------------------------------------------------------
(* A second specification: the time functions applied to drawn arguments *)

\* Times of day written out by hand: the text, and the minutes since
\* midnight that the text stands for
Clock ==
    { [str |-> Str("0", "0", "0", "0"), min |-> 0],
      [str |-> Str("0", "5", "5", "9"), min |-> 359],
      [str |-> Str("0", "6", "0", "0"), min |-> 360],
      [str |-> Str("0", "7", "5", "9"), min |-> 479],
      [str |-> Str("0", "8", "0", "0"), min |-> 480],
      [str |-> <<"8", ":", "0">>,       min |-> 480],
      [str |-> Str("1", "2", "0", "0"), min |-> 720],
      [str |-> Str("1", "7", "5", "9"), min |-> 1079],
      [str |-> Str("1", "8", "0", "0"), min |-> 1080],
      [str |-> Str("2", "0", "0", "0"), min |-> 1200],
      [str |-> Str("2", "1", "5", "9"), min |-> 1319],
      [str |-> Str("2", "2", "0", "0"), min |-> 1320],
      [str |-> Str("2", "3", "0", "0"), min |-> 1380],
      [str |-> Str("2", "3", "5", "9"), min |-> 1439] }

MinuteOf(str) == (CHOOSE row \in Clock : row.str = str).min

InClock(str) == \E row \in Clock : row.str = str

At(minute) == [day |-> 1, hour |-> minute \div 60, minute |-> minute % 60]

MinuteOfDay(dt) == dt.hour * 60 + dt.minute

\* The characters a clock text is made of
HourTens == {"0", "1", "2"}

MinuteTens == {"0", "1", "2", "3", "4", "5"}

Units == {Digits[d] : d \in 1..10}

\* Every text of five characters with the shape of "HH:MM", and a few
\* texts that are not zero-padded
ClockTexts ==
    {<<a, b, ":", c, d>> : a \in HourTens, b \in Units,
                           c \in MinuteTens, d \in Units}
    \cup {<<"8", ":", "0">>, <<"8", ":", "0", "5">>, <<"0", "8", ":", "5">>,
          <<"2", "3", ":", "5", "9", ":", "0", "0">>}

InitTime ==
    /\ pc = "call"
    /\ call \in {[fn |-> "is_between", dt |-> At(n.min), start |-> s.str,
                  end |-> e.str, done |-> FALSE, ret |-> Raises,
                  out |-> <<>>] :
                    n \in Clock, s \in Clock, e \in Clock}
               \cup
               {[fn |-> "round_trip", dt |-> StartOfDay, start |-> s,
                 end |-> <<>>, done |-> FALSE, ret |-> Raises,
                 out |-> <<>>] : s \in ClockTexts}
    /\ now = StartOfDay
    /\ cfg = EmptyDict
    /\ lux = 0
    /\ tries = 0
    /\ reading = NoReading
    /\ i = 1
    /\ state_file = Unreadable
    /\ state = EmptyDict
    /\ lit = all_off
    /\ last_day = None
    /\ rnd_on = 0
    /\ rnd_off = 0
    /\ cmds = NoCmds
    /\ log = {}
    /\ ran = FALSE
    /\ exit_info = NoExit
    /\ cfg_read = NoConfigRead

CallIsBetween ==
    /\ pc = "call"
    /\ call.fn = "is_between"
    /\ call' = [call EXCEPT !.done = TRUE,
                            !.ret = is_between(call.dt, call.start, call.end)]
    /\ pc' = "returned"
    /\ UNCHANGED <<now, cfg, lux, tries, reading, i, state, lit, last_day,
                   rnd_on, rnd_off, state_file, cmds, log, ran, exit_info,
                   cfg_read>>

\* format_time(parse_time(s)); an exception of parse_time propagates
CallRoundTrip ==
    /\ pc = "call"
    /\ call.fn = "round_trip"
    /\ LET t == parse_time(call.start)
       IN  call' = [call EXCEPT !.done = TRUE,
                                !.ret = IF t.ok THEN Returns(TRUE) ELSE Raises,
                                !.out = IF t.ok THEN format_time(t) ELSE <<>>]
    /\ pc' = "returned"
    /\ UNCHANGED <<now, cfg, lux, tries, reading, i, state, lit, last_day,
                   rnd_on, rnd_off, state_file, cmds, log, ran, exit_info,
                   cfg_read>>

NextTime == CallIsBetween \/ CallRoundTrip

SpecTime == InitTime /\ [][NextTime]_vars

---------------------------------------------------------------------------
(* What the claims speak of *)

Threshold == Get(cfg, "threshold", 120)

Hysteresis == Get(cfg, "hysteresis", 15)

\* The previous desired state of "main": its entry in `state`, off if none
PrevMain == Has(state, "main") /\ state["main"]

\* The configuration has a main_off time and the time of day has reached it
CutoffApplies ==
    /\ Has(cfg, "main_off")
    /\ InClock(cfg["main_off"])
    /\ MinuteOfDay(now) >= MinuteOf(cfg["main_off"])

\* The step is one iteration of the for loop, for fixture `name`
Reconciles(name) ==
    /\ pc = "spots"
    /\ SpotOrder[i] = name
    /\ pc' \in {"spots", "save"}

\* All fixtures of the cycle have been processed
CycleDone == pc \in {"save", "sleep"}

\* "main" has been processed in the cycle
MainDone == CycleDone \/ (pc = "spots" /\ i > 1)

\* Membership of a half-open window that may cross midnight
WithinWindow(n, s, e) ==
    \/ s <= e /\ s <= n /\ n < e
    \/ s > e /\ (n >= s \/ n < e)

\* Fixture `name` has both schedule keys and the time lies in its window
WindowActive(name) ==
    /\ Has(cfg, on_key(name)) /\ Has(cfg, off_key(name))
    /\ InClock(cfg[on_key(name)]) /\ InClock(cfg[off_key(name)])
    /\ WithinWindow(MinuteOfDay(now), MinuteOf(cfg[on_key(name)]),
                    MinuteOf(cfg[off_key(name)]))

\* C1: when the manual cutoff does not apply, the desired state of "main"
\* is: previously ON -> ON iff lux < threshold + hysteresis; previously
\* OFF -> ON iff lux < threshold - hysteresis.
C1_Hysteresis ==
    [][ (Reconciles("main") /\ ~CutoffApplies) =>
            state'["main"] = (IF PrevMain
                              THEN lux < Threshold + Hysteresis
                              ELSE lux < Threshold - Hysteresis) ]_vars

\* Previous ON and lux 136 with threshold 120, hysteresis 15: turned OFF
C1_Witness ==
    /\ pc = "spots" /\ i = 2
    /\ cfg = EmptyDict /\ lux = 136
    /\ <<"main", "transition">> \in log
    /\ state["main"] = FALSE
    /\ cmds["main"] = "off"

\* C2: in a cycle with no cutoff and threshold - hysteresis <= lux <
\* threshold + hysteresis the desired state of "main" stays what it was,
\* and when an earlier cycle of the process has completed no command is
\* issued for "main".
C2_NoToggleInBand ==
    [][ (/\ Reconciles("main")
         /\ ~CutoffApplies
         /\ Threshold - Hysteresis <= lux
         /\ lux < Threshold + Hysteresis) =>
            /\ state'["main"] = PrevMain
            /\ ran => (cmds'["main"] = "none" /\ lit'["main"] = lit["main"])
      ]_vars

\* "main" stays ON at lux 110, inside the band 105..135, without a command
C2_Witness ==
    /\ pc = "save" /\ ran
    /\ cfg = EmptyDict /\ lux = 110
    /\ state["main"] = TRUE /\ lit["main"]
    /\ cmds["main"] = "none"
    /\ <<"main", "transition">> \notin log

\* C3: once "main" has been processed in a cycle whose configuration has
\* main_off and whose time of day is >= main_off, its desired state is
\* false and it is off.
C3_ManualCutoff ==
    (MainDone /\ CutoffApplies) =>
        /\ Has(state, "main")
        /\ state["main"] = FALSE
        /\ ~lit["main"]

\* main_off 20:00, now 20:05, dark (lux 104), "main" was on: switched off
C3_Witness ==
    /\ pc = "sleep"
    /\ Has(cfg, "main_off") /\ cfg["main_off"] = Str("2", "0", "0", "0")
    /\ now.hour = 20 /\ now.minute = 5
    /\ lux = 104
    /\ <<"main", "turned OFF">> \in log
    /\ ~lit["main"]

\* The cases that the specification lists for is_between:
\* <<now, start, end, expected>>
WindowCases ==
    { <<1380, 1320, 360, TRUE>>,  <<0, 1320, 360, TRUE>>,
      <<359, 1320, 360, TRUE>>,   <<360, 1320, 360, FALSE>>,
      <<1319, 1320, 360, FALSE>>, <<480, 480, 1080, TRUE>>,
      <<720, 480, 1080, TRUE>>,   <<1079, 480, 1080, TRUE>>,
      <<479, 480, 1080, FALSE>>,  <<1080, 480, 1080, FALSE>> }

\* C4: is_between returns true exactly when (start <= end and start <= now
\* < end) or (start > end and (now >= start or now < end)); the listed
\* cases for 22:00-06:00 and 08:00-18:00 come out as stated.
C4_HalfOpenWindow ==
    (call.fn = "is_between" /\ call.done) =>
        LET n == MinuteOfDay(call.dt)
            s == MinuteOf(call.start)
            e == MinuteOf(call.end)
        IN  /\ call.ret.ok
            /\ call.ret.value =
                   ((s <= e /\ s <= n /\ n < e) \/ (s > e /\ (n >= s \/ n < e)))
            /\ \A w \in WindowCases :
                   (n = w[1] /\ s = w[2] /\ e = w[3]) => call.ret.value = w[4]

\* 22:00-06:00 asked at 06:00: the end minute is outside
C4_Witness ==
    /\ call.fn = "is_between" /\ call.done
    /\ call.start = Str("2", "2", "0", "0")
    /\ call.end = Str("0", "6", "0", "0")
    /\ MinuteOfDay(call.dt) = 360
    /\ call.ret = Returns(FALSE)

\* C5: an iteration of the for loop issues ON exactly when desired is true
\* and the fixture was observed off, OFF exactly when desired is false and
\* it was observed on, and the "turned ON/OFF" record exactly with the
\* command; it issues nothing for the other fixtures.
C5_MinimalActuation ==
    [][ \A name \in SpotNames : Reconciles(name) =>
            LET want == state'[name]
            IN  /\ (cmds'[name] = "on") = (want /\ ~lit[name])
                /\ (cmds'[name] = "off") = (~want /\ lit[name])
                /\ (cmds'[name] = "none") = (want = lit[name])
                /\ (<<name, "turned ON">> \in log') = (cmds'[name] = "on")
                /\ (<<name, "turned OFF">> \in log') = (cmds'[name] = "off")
                /\ \A other \in SpotNames \ {name} :
                       cmds'[other] = cmds[other] /\ lit'[other] = lit[other]
      ]_vars

\* A cycle that switched gallery on and left main, already on, alone
C5_Witness ==
    /\ pc = "save" /\ ran
    /\ cmds["gallery"] = "on" /\ <<"gallery", "turned ON">> \in log
    /\ cmds["main"] = "none" /\ state["main"] = TRUE /\ lit["main"]
    /\ cmds["aux"] = "none"

\* C6: every iteration of the for loop leaves the fixture's actual state
\* equal to the desired state; and in a cycle after a completed one, a
\* fixture whose desired state is the same as in that cycle gets no command.
C6_Idempotence ==
    [][ \A name \in SpotNames : Reconciles(name) =>
            /\ lit'[name] = state'[name]
            /\ (ran /\ Has(state, name) /\ state'[name] = state[name]) =>
                   (cmds'[name] = "none" /\ lit'[name] = lit[name])
      ]_vars

\* A second cycle with the same desired states, two lights on: no command
C6_Witness ==
    /\ pc = "save" /\ ran
    /\ state["main"] = TRUE /\ state["gallery"] = TRUE
    /\ \A name \in SpotNames :
           /\ <<name, "transition">> \notin log
           /\ <<name, "init">> \notin log
    /\ cmds = NoCmds

\* C7: at the end of the first cycle of a process, a schedule-only fixture
\* whose window holds the current time is desired on, has been sent ON and
\* is on.
C7_CatchUp ==
    \A name \in {"aux", "gallery"} :
        (CycleDone /\ ~ran /\ WindowActive(name)) =>
            /\ Has(state, name) /\ state[name] = TRUE
            /\ cmds[name] = "on"
            /\ lit[name]

\* gallery 18:00-23:00, first cycle at 19:00
C7_Witness ==
    /\ pc = "sleep" /\ ~ran
    /\ Has(cfg, "gallery_on") /\ cfg["gallery_on"] = Str("1", "8", "0", "0")
    /\ Has(cfg, "gallery_off") /\ cfg["gallery_off"] = Str("2", "3", "0", "0")
    /\ now.hour = 19 /\ now.minute = 0
    /\ cmds["gallery"] = "on"

\* C8: after an interrupt the process is out of the loop with every
\* fixture off.
C8_GracefulShutdown ==
    (pc = "stopped") =>
        /\ exit_info.how = "KeyboardInterrupt"
        /\ \A name \in SpotNames : ~lit[name]

\* Interrupted between the iterations for "main" and "aux", a light on
C8_Witness ==
    /\ pc = "stopped"
    /\ exit_info.at = "aux"
    /\ exit_info.lit_before

\* C9: a malformed time string is treated as an absent entry and the loop
\* goes on: no exception ends the process.
C9_MalformedTimeSkipped == pc # "crashed"

\* C10: get_lux makes at most 3 reads; a reading that is a non-negative
\* number is returned at once; any other outcome leads to the delay and,
\* before the third, to another read; the warning and 9999 are returned
\* after the third failed read, and only then.
C10_BoundedSensorRead ==
    /\ [](tries <= 3)
    /\ [][ LET good == reading.kind = "value" /\ reading.value >= 0
               warned == <<"lux", "read failed">>
           IN  /\ (pc = "check" /\ pc' # "stopped") =>
                      IF good
                      THEN pc' = "spots" /\ lux' = reading.value
                           /\ warned \notin log'
                      ELSE pc' = "retry_delay" /\ tries' = tries
               /\ (pc = "retry_delay" /\ pc' # "stopped") =>
                      IF tries < 3
                      THEN pc' = "read"
                      ELSE pc' = "spots" /\ lux' = 9999 /\ warned \in log'
               /\ (warned \notin log /\ warned \in log') =>
                      pc = "retry_delay" /\ tries = 3
         ]_vars

\* Three failed reads: the warning is logged and lux is 9999
C10_Witness ==
    /\ pc = "spots"
    /\ <<"lux", "read failed">> \in log
    /\ lux = 9999

\* The warning of get_lux: all three reads of the cycle failed
SensorFailed == <<"lux", "read failed">> \in log

Processed(name) ==
    \/ CycleDone
    \/ pc = "spots" /\ \E k \in 1..(i - 1) : SpotOrder[k] = name

\* C12: once "aux" or "gallery" has been processed in a cycle whose
\* configuration lacks its _on key or its _off key, its desired state is
\* false and it is off.
C12_MissingKeysDisable ==
    \A name \in {"aux", "gallery"} :
        (/\ Processed(name)
         /\ ~(Has(cfg, on_key(name)) /\ Has(cfg, off_key(name)))) =>
            /\ Has(state, name)
            /\ state[name] = FALSE
            /\ ~lit[name]

\* Only gallery_on = 18:00 is configured; at 19:00 gallery, which was on,
\* is switched off
C12_Witness ==
    /\ pc = "sleep"
    /\ DOMAIN cfg = {"gallery_on"}
    /\ now.hour = 19
    /\ <<"gallery", "turned OFF">> \in log
    /\ state["gallery"] = FALSE /\ ~lit["gallery"]

\* The process is inside an iteration, past line 134
InCycle == pc \in {"read", "check", "retry_delay", "spots", "save", "sleep"}

C14_UnknownPriorState ==
    [][ \A name \in SpotNames : Reconciles(name) =>
            /\ Has(state', name)
            /\ ~Has(state, name) =>
                   /\ <<name, "init">> \in log'
                   /\ <<name, "transition">> \notin log'
            /\ Has(state, name) =>
                   /\ <<name, "init">> \notin log'
                   /\ (<<name, "transition">> \in log')
                          = (state'[name] # state[name])
      ]_vars

\* No state file: the first cycle finds main dark and wants it on, which
\* is logged as initialization
C14_Witness ==
    /\ pc = "spots" /\ i = 2 /\ ~ran
    /\ ~state_file.ok
    /\ state["main"] = TRUE
    /\ <<"main", "init">> \in log
    /\ <<"main", "transition">> \notin log

\* C15: the top of an iteration sets the two offsets, and logs them,
\* exactly when last_day is unset or is not the day of the cycle, and
\* leaves them alone otherwise; afterwards last_day is the day of the
\* cycle, so that inside every cycle, the first included, the offsets in
\* use are those set on that day.
C15_DailyJitter ==
    /\ [](InCycle => (last_day # 0 /\ last_day = now.day))
    /\ [][ (pc = "loop" /\ pc' = "read") =>
               LET fresh == last_day = 0 \/ last_day # now'.day
               IN  /\ (<<"offsets", "new">> \in log') = fresh
                   /\ last_day' = now'.day
                   /\ ~fresh => (rnd_on' = rnd_on /\ rnd_off' = rnd_off)
         ]_vars
    /\ [][ pc # "loop" /\ pc' \in LoopPcs =>
               /\ rnd_on' = rnd_on /\ rnd_off' = rnd_off
               /\ last_day' = last_day ]_vars

\* A later cycle of the process on the day of the one before: nothing is
\* generated
C15_Witness ==
    /\ pc = "read" /\ ran
    /\ now.day = 2 /\ last_day = 2
    /\ <<"offsets", "new">> \notin log

ZeroPadded(str) ==
    /\ Len(str) = 5
    /\ str[3] = ":"
    /\ \/ str[1] \in {"0", "1"} /\ str[2] \in Units
       \/ str[1] = "2" /\ str[2] \in {"0", "1", "2", "3"}
    /\ str[4] \in MinuteTens
    /\ str[5] \in Units

\* C17: for every zero-padded "HH:MM" with HH in 00..23 and MM in 00..59,
\* format_time(parse_time(s)) returns s.
C17_RoundTrip ==
    (call.fn = "round_trip" /\ call.done /\ ZeroPadded(call.start)) =>
        /\ call.ret = Returns(TRUE)
        /\ call.out = call.start

C17_Witness ==
    /\ call.fn = "round_trip" /\ call.done
    /\ call.start = Str("0", "8", "0", "5")
    /\ call.out = Str("0", "8", "0", "5")

\* The part of a cycle before the for loop, and the pause after it
BeforeSpots == pc \in {"sleep", "loop", "read", "check", "retry_delay"}

\* C18: with main_off = T configured, "main" is desired off in every cycle
\* from T until midnight; the desired state is carried unchanged into the
\* next cycle; and in a cycle whose time of day is earlier than T, as the
\* first one after midnight is, the cutoff does not apply: with the previous
\* desired state OFF, "main" is desired on exactly when
\* lux < threshold - hysteresis.
C18_CutoffResetsAtMidnight ==
    /\ []((pc = "sleep" /\ CutoffApplies) =>
              (Has(state, "main") /\ state["main"] = FALSE))
    /\ [][ (BeforeSpots /\ pc' \in LoopPcs) => state' = state ]_vars
    /\ [][ ( /\ Reconciles("main")
             /\ Has(cfg, "main_off") /\ InClock(cfg["main_off"])
             /\ MinuteOfDay(now) < MinuteOf(cfg["main_off"])
             /\ ~PrevMain )
           => /\ Has(state', "main")
              /\ state'["main"] = (lux < Threshold - Hysteresis)
              /\ lit'["main"] = (lux < Threshold - Hysteresis) ]_vars

\* The day rolled over in this cycle of a running process, it is 19:00 with
\* main_off 20:00 and dark: "main", desired off before, is switched on
C18_Witness ==
    /\ pc = "sleep" /\ ran
    /\ <<"offsets", "new">> \in log
    /\ now.day = 2 /\ now.hour = 19
    /\ Has(cfg, "main_off") /\ cfg["main_off"] = Str("2", "0", "0", "0")
    /\ lux = 104
    /\ <<"main", "transition">> \in log
    /\ <<"main", "turned ON">> \in log
    /\ state["main"] = TRUE

\* C19: at the end of every completed cycle every fixture has a desired
\* state and its output is in that state, whatever the outputs were when
\* the cycle began.
C19_ReconciledAtCycleEnd ==
    CycleDone =>
        \A name \in SpotNames :
            /\ Has(state, name)
            /\ lit[name] = state[name]

\* First cycle of a process: the outputs were forced off at startup while
\* the loaded state had "main" on; it is still desired on, with no edge
\* logged, and has been switched on
C19_Witness ==
    /\ pc = "sleep" /\ ~ran
    /\ state["main"] = TRUE /\ lit["main"]
    /\ cmds["main"] = "on"
    /\ <<"main", "init">> \notin log
    /\ <<"main", "transition">> \notin log
    /\ state["gallery"] = FALSE /\ ~lit["gallery"]

\* The state file has an entry for "main" that says ON
PersistedMainOn ==
    state_file.ok /\ Has(state_file.data, "main") /\ state_file.data["main"]

\* In the first cycle of a process "main" has been processed and the state
\* file has not been rewritten yet
FirstMainDecided == ~ran /\ ((pc = "spots" /\ i > 1) \/ pc = "save")

\* C20: a process starts with every output off and with the desired states
\* of the state file; in its first cycle, with no cutoff and
\* threshold - hysteresis <= lux < threshold + hysteresis, "main" persisted
\* ON stays desired ON and is sent ON, and without a persisted entry it is
\* desired OFF and gets no command.
C20_HysteresisAcrossRestart ==
    /\ (pc = "loop" /\ ~ran) =>
           /\ \A name \in SpotNames : ~lit[name]
           /\ state = (IF state_file.ok THEN state_file.data ELSE <<>>)
    /\ ( /\ FirstMainDecided
         /\ ~Has(cfg, "main_off") \/ ~CutoffApplies
         /\ Threshold - Hysteresis <= lux
         /\ lux < Threshold + Hysteresis )
       => /\ PersistedMainOn =>
                 /\ state["main"] = TRUE
                 /\ cmds["main"] = "on"
                 /\ lit["main"]
          /\ (~state_file.ok \/ ~Has(state_file.data, "main")) =>
                 /\ state["main"] = FALSE
                 /\ cmds["main"] = "none"
                 /\ ~lit["main"]

\* main persisted ON, default thresholds, lux 110 inside the band: the
\* first cycle has sent ON
C20_Witness ==
    /\ pc = "save" /\ ~ran
    /\ PersistedMainOn
    /\ cfg = EmptyDict
    /\ lux = 110
    /\ state["main"] = TRUE /\ cmds["main"] = "on" /\ lit["main"]

====
